---- MODULE Spec2Model ----
(***************************************************************************)
(* Model of the warehouse / stock canister of                              *)
(* src/icp_rust_boilerplate_backend/src/lib.rs.                            *)
(*                                                                         *)
(* The canister state is the six thread_local cells: the two record stores *)
(* (StableBTreeMap, modelled as functions from the live keys to records),  *)
(* the two next-id counters and the two pools of reusable ids (a HashSet   *)
(* for warehouses, a Vec for items).  Every update call runs to completion *)
(* (no await), so each handler is one atomic action.  `now` is the value   *)
(* ic_cdk::api::time() hands out, `last` records the most recent call, its *)
(* arguments and what it returned, so that properties can speak about      *)
(* "the call that has just returned".                                      *)
(***************************************************************************)
EXTENDS Integers, Sequences, FiniteSets, TLC

VARIABLES WAREHOUSE_ID_COUNTER, WAREHOUSE_ID_INCREMENT,
          ITEM_ID_COUNTER, ITEM_ID_INCREMENT,
          WAREHOUSE_STORAGE, STOCK_STORAGE,
          now, last

vars == <<WAREHOUSE_ID_COUNTER, WAREHOUSE_ID_INCREMENT,
          ITEM_ID_COUNTER, ITEM_ID_INCREMENT,
          WAREHOUSE_STORAGE, STOCK_STORAGE, now, last>>

\* The six cells of the canister, without the clock and the call record.
ledger == <<WAREHOUSE_ID_COUNTER, WAREHOUSE_ID_INCREMENT,
            ITEM_ID_COUNTER, ITEM_ID_INCREMENT,
            WAREHOUSE_STORAGE, STOCK_STORAGE>>

----------------------------------------------------------------------------
\* Bounds of the model.

\* Largest warehouse id the counter may hand out.
MaxWarehouseId == 2
\* Largest stock item id the counter may hand out.
MaxItemId == 2
\* Largest quantity passed to a call, and largest quantity a record may hold
\* (the u64 additions of the code are modelled below their overflow).
MaxQuantity == 2
\* Largest value of the clock.
MaxTime == 2

WarehouseIdArgs == 1..MaxWarehouseId
ItemIdArgs == 1..MaxItemId
QuantityArgs == 0..MaxQuantity
WarehouseNames == {""}
ItemNames == {"", "bolt"}

----------------------------------------------------------------------------
\* Option<u64>
None == <<>>
Some(x) == <<x>>

\* StableBTreeMap::insert, ::remove, ::get(..).is_some()
Insert(m, k, v) == [x \in (DOMAIN m) \cup {k} |-> IF x = k THEN v ELSE m[x]]
Remove(m, k) == [x \in (DOMAIN m) \ {k} |-> m[x]]
Contains(m, k) == k \in DOMAIN m
EmptyMap == [x \in {} |-> 0]

\* iter().min() of a non-empty set of ids
MinOf(S) == CHOOSE x \in S : \A y \in S : x <= y

\* The keys of S in ascending order: the iteration order of a StableBTreeMap.
RECURSIVE Ascending(_)
Ascending(S) == IF S = {} THEN <<>> ELSE <<MinOf(S)>> \o Ascending(S \ {MinOf(S)})

\* The ledger as one value; the handlers below map a call to the ledger it
\* leaves (field names abbreviate the cells) together with the call's result.
Cur == [wpool |-> WAREHOUSE_ID_COUNTER, wincr |-> WAREHOUSE_ID_INCREMENT,
        ipool |-> ITEM_ID_COUNTER, iincr |-> ITEM_ID_INCREMENT,
        ws |-> WAREHOUSE_STORAGE, ss |-> STOCK_STORAGE]

Outcome(st, result, ret) == [st |-> st, result |-> result, ret |-> ret]

----------------------------------------------------------------------------
\* get_next_warehouse_id forgetting to take the reused id out of the pool.
get_next_warehouse_id_keeps(pool, incr) ==
    IF pool # {}
    THEN [id |-> MinOf(pool), pool |-> pool, incr |-> incr]
    ELSE [id |-> incr, pool |-> pool, incr |-> incr + 1]

\* get_next_warehouse_id reusing the largest id of the pool.
get_next_warehouse_id_largest(pool, incr) ==
    IF pool # {}
    THEN LET m == CHOOSE x \in pool : \A y \in pool : y <= x
         IN  [id |-> m, pool |-> pool \ {m}, incr |-> incr]
    ELSE [id |-> incr, pool |-> pool, incr |-> incr + 1]

\* get_next_warehouse_id incrementing the counter before it reads it.
get_next_warehouse_id_increments_first(pool, incr) ==
    IF pool # {}
    THEN [id |-> MinOf(pool), pool |-> pool \ {MinOf(pool)}, incr |-> incr]
    ELSE [id |-> incr + 1, pool |-> pool, incr |-> incr + 1]

\* fn get_next_warehouse_id: the smallest reusable id if there is one, else
\* the counter, which is then incremented.
get_next_warehouse_id(pool, incr) ==
    IF pool # {}
    THEN [id |-> MinOf(pool), pool |-> pool \ {MinOf(pool)}, incr |-> incr]
    ELSE [id |-> incr, pool |-> pool, incr |-> incr + 1]

\* get_next_item_id handing out the counter without incrementing it.
get_next_item_id_no_increment(pool, incr) ==
    IF pool # <<>>
    THEN [id |-> pool[Len(pool)], pool |-> SubSeq(pool, 1, Len(pool) - 1), incr |-> incr]
    ELSE [id |-> incr, pool |-> pool, incr |-> incr]

\* fn get_next_item_id: the last pushed reusable id if there is one, else the
\* counter, which is then incremented.
get_next_item_id(pool, incr) ==
    IF pool # <<>>
    THEN [id |-> pool[Len(pool)], pool |-> SubSeq(pool, 1, Len(pool) - 1), incr |-> incr]
    ELSE [id |-> incr, pool |-> pool, incr |-> incr + 1]

\* fn add_warehouse
add_warehouse(name, t) ==
    LET a == get_next_warehouse_id(WAREHOUSE_ID_COUNTER, WAREHOUSE_ID_INCREMENT)
        warehouse == [id |-> a.id, name |-> name, created_at |-> t]
    IN  Outcome([Cur EXCEPT !.wpool = a.pool, !.wincr = a.incr,
                            !.ws = Insert(WAREHOUSE_STORAGE, a.id, warehouse)],
                "Ok", <<warehouse>>)

\* fn delete_warehouse: removes the record, releases the id for reuse and
\* then removes every stock item of the warehouse.
RECURSIVE RemoveEach(_, _)
RemoveEach(m, ids) ==
    IF ids = <<>> THEN m ELSE RemoveEach(Remove(m, Head(ids)), Tail(ids))

\* delete_warehouse releasing the id before it knows the warehouse exists.
delete_warehouse_releases_first(warehouse_id) ==
    LET warehouse_found == Contains(WAREHOUSE_STORAGE, warehouse_id)
        ws == Remove(WAREHOUSE_STORAGE, warehouse_id)
        wpool == WAREHOUSE_ID_COUNTER \cup {warehouse_id}
        item_ids_to_remove ==
            Ascending({id \in DOMAIN STOCK_STORAGE :
                          STOCK_STORAGE[id].warehouse_id = warehouse_id})
    IN  IF ~warehouse_found
        THEN Outcome([Cur EXCEPT !.ws = ws, !.wpool = wpool], "NotFound", <<>>)
        ELSE Outcome([Cur EXCEPT !.ws = ws, !.wpool = wpool,
                                 !.ss = RemoveEach(STOCK_STORAGE, item_ids_to_remove)],
                     "Ok", <<>>)

\* delete_warehouse whose cascade stops after the first item it removes.
delete_warehouse_first_item_only(warehouse_id) ==
    LET warehouse_found == Contains(WAREHOUSE_STORAGE, warehouse_id)
        ws == Remove(WAREHOUSE_STORAGE, warehouse_id)
        item_ids_to_remove ==
            Ascending({id \in DOMAIN STOCK_STORAGE :
                          STOCK_STORAGE[id].warehouse_id = warehouse_id})
    IN  IF ~warehouse_found
        THEN Outcome([Cur EXCEPT !.ws = ws], "NotFound", <<>>)
        ELSE Outcome([Cur EXCEPT !.ws = ws,
                                 !.wpool = WAREHOUSE_ID_COUNTER \cup {warehouse_id},
                                 !.ss = IF item_ids_to_remove = <<>>
                                        THEN STOCK_STORAGE
                                        ELSE Remove(STOCK_STORAGE, Head(item_ids_to_remove))],
                     "Ok", <<>>)

delete_warehouse(warehouse_id) ==
    LET warehouse_found == Contains(WAREHOUSE_STORAGE, warehouse_id)
        ws == Remove(WAREHOUSE_STORAGE, warehouse_id)
        item_ids_to_remove ==
            Ascending({id \in DOMAIN STOCK_STORAGE :
                          STOCK_STORAGE[id].warehouse_id = warehouse_id})
    IN  IF ~warehouse_found
        THEN Outcome([Cur EXCEPT !.ws = ws], "NotFound", <<>>)
        ELSE Outcome([Cur EXCEPT !.ws = ws,
                                 !.wpool = WAREHOUSE_ID_COUNTER \cup {warehouse_id},
                                 !.ss = RemoveEach(STOCK_STORAGE, item_ids_to_remove)],
                     "Ok", <<>>)

\* The ids of the stock records of warehouse w that have the name name: the
\* records the search of add_item_to_warehouse accepts.
Matching(w, name) ==
    {id \in DOMAIN STOCK_STORAGE :
        /\ STOCK_STORAGE[id].warehouse_id = w
        /\ STOCK_STORAGE[id].item_name = name}

\* fn add_item_to_warehouse: the first item (in key order) of the warehouse
\* with the same name absorbs the quantity, else a new record is created.
add_item_to_warehouse(warehouse_id, item_name, quantity, t) ==
    LET warehouse_exists == Contains(WAREHOUSE_STORAGE, warehouse_id)
        matching == Matching(warehouse_id, item_name)
    IN  IF ~warehouse_exists
        THEN Outcome(Cur, "NotFound", <<>>)
        ELSE IF matching # {}
        THEN LET item_id == MinOf(matching)
             IN  IF Contains(STOCK_STORAGE, item_id)
                 THEN LET existing_item ==
                              [STOCK_STORAGE[item_id] EXCEPT
                                  !.quantity = @ + quantity,
                                  !.updated_at = Some(t)]
                          ss == Insert(STOCK_STORAGE, item_id, existing_item)
                      IN  Outcome([Cur EXCEPT
                                      !.ss = Insert(ss, existing_item.item_id, existing_item)],
                                  "Ok", <<existing_item>>)
                 ELSE Outcome(Cur, "NotFound", <<>>)
        ELSE LET a == get_next_item_id(ITEM_ID_COUNTER, ITEM_ID_INCREMENT)
                 item == [item_id |-> a.id, warehouse_id |-> warehouse_id,
                          item_name |-> item_name, quantity |-> quantity,
                          created_at |-> t, updated_at |-> None]
             IN  Outcome([Cur EXCEPT !.ipool = a.pool, !.iincr = a.incr,
                                     !.ss = Insert(STOCK_STORAGE, item.item_id, item)],
                         "Ok", <<item>>)

\* fn check_stock
check_stock(item_id) ==
    IF Contains(STOCK_STORAGE, item_id)
    THEN Outcome(Cur, "Ok", <<STOCK_STORAGE[item_id]>>)
    ELSE Outcome(Cur, "NotFound", <<>>)

\* delete_item not writing the record back when something is left of it.
delete_item_no_write_back(item_id, quantity, t) ==
    IF Contains(STOCK_STORAGE, item_id)
    THEN LET old == STOCK_STORAGE[item_id]
             item == [old EXCEPT !.quantity = @ - quantity, !.updated_at = Some(t)]
         IN  IF quantity > old.quantity
             THEN Outcome(Cur, "NotEnoughStock", <<>>)
             ELSE IF item.quantity = 0
             THEN Outcome([Cur EXCEPT !.ss = Remove(STOCK_STORAGE, item_id)],
                          "Ok", <<item>>)
             ELSE Outcome(Cur, "Ok", <<item>>)
    ELSE Outcome(Cur, "NotFound", <<>>)

\* delete_item writing the record back even when nothing is left of it.
delete_item_keeps_empty(item_id, quantity, t) ==
    IF Contains(STOCK_STORAGE, item_id)
    THEN LET old == STOCK_STORAGE[item_id]
             item == [old EXCEPT !.quantity = @ - quantity, !.updated_at = Some(t)]
         IN  IF quantity > old.quantity
             THEN Outcome(Cur, "NotEnoughStock", <<>>)
             ELSE Outcome([Cur EXCEPT !.ss = Insert(STOCK_STORAGE, item_id, item)],
                          "Ok", <<item>>)
    ELSE Outcome(Cur, "NotFound", <<>>)

\* fn delete_item: takes quantity off the item and removes the record when
\* nothing is left.
delete_item(item_id, quantity, t) ==
    IF Contains(STOCK_STORAGE, item_id)
    THEN LET old == STOCK_STORAGE[item_id]
             item == [old EXCEPT !.quantity = @ - quantity, !.updated_at = Some(t)]
         IN  IF quantity > old.quantity
             THEN Outcome(Cur, "NotEnoughStock", <<>>)
             ELSE IF item.quantity = 0
             THEN Outcome([Cur EXCEPT !.ss = Remove(STOCK_STORAGE, item_id)],
                          "Ok", <<item>>)
             ELSE Outcome([Cur EXCEPT !.ss = Insert(STOCK_STORAGE, item_id, item)],
                          "Ok", <<item>>)
    ELSE Outcome(Cur, "NotFound", <<>>)

\* The destination record built with the whole quantity of the source item
\* instead of the transferred quantity.
new_item_whole_quantity(item, new_id, to_warehouse_id, quantity, t) ==
    [item_id |-> new_id, warehouse_id |-> to_warehouse_id,
     item_name |-> item.item_name, quantity |-> item.quantity + quantity,
     created_at |-> t, updated_at |-> None]

\* The record transfer_item creates for the destination warehouse; item is
\* the source item after the quantity was taken off.
new_item(item, new_id, to_warehouse_id, quantity, t) ==
    [item_id |-> new_id, warehouse_id |-> to_warehouse_id,
     item_name |-> item.item_name, quantity |-> quantity,
     created_at |-> t, updated_at |-> None]

\* transfer_commit putting the source back without taking the quantity off.
transfer_commit_keeps_source(stock, old, item_id, to_warehouse_id, quantity, t) ==
    LET item == [old EXCEPT !.updated_at = Some(t)]
        stock2 == Insert(stock, item_id, item)
        a == get_next_item_id(ITEM_ID_COUNTER, ITEM_ID_INCREMENT)
        created == new_item(item, a.id, to_warehouse_id, quantity, t)
    IN  Outcome([Cur EXCEPT !.ipool = a.pool, !.iincr = a.incr,
                            !.ss = Insert(stock2, created.item_id, created)],
                "Ok", <<>>)

\* The successful part of transfer_item: old is the item taken out of the
\* store, stock the store without it.
transfer_commit(stock, old, item_id, to_warehouse_id, quantity, t) ==
    LET item == [old EXCEPT !.quantity = @ - quantity, !.updated_at = Some(t)]
        stock2 == Insert(stock, item_id, item)
        a == get_next_item_id(ITEM_ID_COUNTER, ITEM_ID_INCREMENT)
        created == new_item(item, a.id, to_warehouse_id, quantity, t)
    IN  Outcome([Cur EXCEPT !.ipool = a.pool, !.iincr = a.incr,
                            !.ss = Insert(stock2, created.item_id, created)],
                "Ok", <<>>)

\* transfer_item not putting the item back when the stock does not suffice.
transfer_item_drops_item(item_id, from_warehouse_id, to_warehouse_id, quantity, t) ==
    IF Contains(STOCK_STORAGE, item_id)
    THEN LET old == STOCK_STORAGE[item_id]
             stock == Remove(STOCK_STORAGE, item_id)
         IN  IF old.warehouse_id # from_warehouse_id
             THEN Outcome([Cur EXCEPT !.ss = Insert(stock, item_id, old)],
                          "NotFound", <<>>)
             ELSE IF old.quantity < quantity
             THEN Outcome([Cur EXCEPT !.ss = stock], "NotEnoughStock", <<>>)
             ELSE transfer_commit(stock, old, item_id, to_warehouse_id, quantity, t)
    ELSE Outcome([Cur EXCEPT !.ss = Remove(STOCK_STORAGE, item_id)], "NotFound", <<>>)

\* transfer_item checking the stock before the source warehouse.
transfer_item_stock_first(item_id, from_warehouse_id, to_warehouse_id, quantity, t) ==
    IF Contains(STOCK_STORAGE, item_id)
    THEN LET old == STOCK_STORAGE[item_id]
             stock == Remove(STOCK_STORAGE, item_id)
         IN  IF old.quantity < quantity
             THEN Outcome([Cur EXCEPT !.ss = Insert(stock, item_id, old)],
                          "NotEnoughStock", <<>>)
             ELSE IF old.warehouse_id # from_warehouse_id
             THEN Outcome([Cur EXCEPT !.ss = Insert(stock, item_id, old)],
                          "NotFound", <<>>)
             ELSE transfer_commit(stock, old, item_id, to_warehouse_id, quantity, t)
    ELSE Outcome([Cur EXCEPT !.ss = Remove(STOCK_STORAGE, item_id)], "NotFound", <<>>)

\* fn transfer_item: the item is taken out of the store, put back unchanged
\* on either failure, and on success put back with the quantity taken off
\* while a new record with a new id is created for the destination.
transfer_item(item_id, from_warehouse_id, to_warehouse_id, quantity, t) ==
    IF Contains(STOCK_STORAGE, item_id)
    THEN LET old == STOCK_STORAGE[item_id]
             stock == Remove(STOCK_STORAGE, item_id)
         IN  IF old.warehouse_id # from_warehouse_id
             THEN Outcome([Cur EXCEPT !.ss = Insert(stock, item_id, old)],
                          "NotFound", <<>>)
             ELSE IF old.quantity < quantity
             THEN Outcome([Cur EXCEPT !.ss = Insert(stock, item_id, old)],
                          "NotEnoughStock", <<>>)
             ELSE transfer_commit(stock, old, item_id, to_warehouse_id, quantity, t)
    ELSE Outcome([Cur EXCEPT !.ss = Remove(STOCK_STORAGE, item_id)], "NotFound", <<>>)

\* fn get_warehouse_stock: the items of the warehouse in key order.
RECURSIVE Records(_, _)
Records(m, ids) ==
    IF ids = <<>> THEN <<>> ELSE <<m[Head(ids)]>> \o Records(m, Tail(ids))

get_warehouse_stock(warehouse_id) ==
    Records(STOCK_STORAGE,
            Ascending({id \in DOMAIN STOCK_STORAGE :
                          STOCK_STORAGE[id].warehouse_id = warehouse_id}))

\* fn get_warehouse
get_warehouse(id) ==
    IF Contains(WAREHOUSE_STORAGE, id)
    THEN Outcome(Cur, "Ok", <<WAREHOUSE_STORAGE[id]>>)
    ELSE Outcome(Cur, "NotFound", <<>>)

\* fn get_all_warehouses_with_stocks: one pair per warehouse, in key order.
RECURSIVE WithStocks(_)
WithStocks(ids) ==
    IF ids = <<>> THEN <<>>
    ELSE <<  <<WAREHOUSE_STORAGE[Head(ids)], get_warehouse_stock(Head(ids))>>  >>
         \o WithStocks(Tail(ids))

get_all_warehouses_with_stocks == WithStocks(Ascending(DOMAIN WAREHOUSE_STORAGE))

----------------------------------------------------------------------------
\* The state after construction: empty stores, empty pools, counters at 1.
Init ==
    /\ WAREHOUSE_ID_COUNTER = {}
    /\ WAREHOUSE_ID_INCREMENT = 1
    /\ ITEM_ID_COUNTER = <<>>
    /\ ITEM_ID_INCREMENT = 1
    /\ WAREHOUSE_STORAGE = EmptyMap
    /\ STOCK_STORAGE = EmptyMap
    /\ now = 1
    /\ last = [op |-> "init", args |-> <<>>, result |-> "Ok", ret |-> <<>>]

\* The ledger stays within the bounds of the model.
Bounded(st) ==
    /\ st.wincr <= MaxWarehouseId + 1
    /\ st.iincr <= MaxItemId + 1
    /\ \A id \in DOMAIN st.ss : st.ss[id].quantity <= MaxQuantity

\* What `last` keeps of a call: always the operation and the kind of result,
\* and for the operations in Observed also the arguments and the returned
\* value.
Record(Observed, op, args, o) ==
    IF op \in Observed
    THEN [op |-> op, args |-> args, result |-> o.result, ret |-> o.ret]
    ELSE [op |-> op, args |-> <<>>, result |-> o.result, ret |-> <<>>]

\* An update call returns outcome o at time t.
Commit(Observed, op, args, o, t) ==
    /\ Bounded(o.st)
    /\ WAREHOUSE_ID_COUNTER' = o.st.wpool
    /\ WAREHOUSE_ID_INCREMENT' = o.st.wincr
    /\ ITEM_ID_COUNTER' = o.st.ipool
    /\ ITEM_ID_INCREMENT' = o.st.iincr
    /\ WAREHOUSE_STORAGE' = o.st.ws
    /\ STOCK_STORAGE' = o.st.ss
    /\ now' = t
    /\ last' = Record(Observed, op, args, o)

AddWarehouse(Observed) ==
    \E name \in WarehouseNames, t \in now..MaxTime :
        Commit(Observed, "add_warehouse", <<name>>, add_warehouse(name, t), t)

DeleteWarehouse(Observed) ==
    \E warehouse_id \in WarehouseIdArgs, t \in now..MaxTime :
        Commit(Observed, "delete_warehouse", <<warehouse_id>>,
               delete_warehouse(warehouse_id), t)

AddItemToWarehouse(Observed) ==
    \E warehouse_id \in WarehouseIdArgs, item_name \in ItemNames,
       quantity \in QuantityArgs, t \in now..MaxTime :
        Commit(Observed, "add_item_to_warehouse",
               <<warehouse_id, item_name, quantity>>,
               add_item_to_warehouse(warehouse_id, item_name, quantity, t), t)

DeleteItem(Observed) ==
    \E item_id \in ItemIdArgs, quantity \in QuantityArgs, t \in now..MaxTime :
        Commit(Observed, "delete_item", <<item_id, quantity>>,
               delete_item(item_id, quantity, t), t)

TransferItem(Observed) ==
    \E item_id \in ItemIdArgs, from_warehouse_id \in WarehouseIdArgs,
       to_warehouse_id \in WarehouseIdArgs, quantity \in QuantityArgs,
       t \in now..MaxTime :
        Commit(Observed, "transfer_item",
               <<item_id, from_warehouse_id, to_warehouse_id, quantity>>,
               transfer_item(item_id, from_warehouse_id, to_warehouse_id, quantity, t), t)

Next(Observed) ==
    \/ AddWarehouse(Observed)
    \/ DeleteWarehouse(Observed)
    \/ AddItemToWarehouse(Observed)
    \/ DeleteItem(Observed)
    \/ TransferItem(Observed)

\* The canister, observed through the operation and result of each call.
Spec == Init /\ [][Next({})]_vars

\* The same canister, observed also through the arguments and returned
\* values of the calls of one group of operations.
SpecWarehouse == Init /\ [][Next({"add_warehouse", "delete_warehouse"})]_vars
SpecAddItem == Init /\ [][Next({"add_item_to_warehouse"})]_vars
SpecDeleteItem == Init /\ [][Next({"delete_item"})]_vars
SpecTransfer == Init /\ [][Next({"transfer_item"})]_vars

----------------------------------------------------------------------------
\* Properties.  In an action formula the primed `last` describes the call
\* that makes the step, the unprimed variables the state it was made in.

\* C1: a call that returns an error leaves the two stores, the two counters
\* and the two pools of reusable ids as they were; delete_warehouse and
\* add_item_to_warehouse fail with NotFound only, delete_item and
\* transfer_item with NotFound or NotEnoughStock, add_warehouse never.
C1_ErrorLeavesLedgerUnchanged ==
    [][last'.result # "Ok" =>
          /\ UNCHANGED ledger
          /\ last'.op \in {"delete_warehouse", "add_item_to_warehouse",
                           "delete_item", "transfer_item"}
          /\ last'.result \in {"NotFound", "NotEnoughStock"}
          /\ last'.op \in {"delete_warehouse", "add_item_to_warehouse"}
                => last'.result = "NotFound"]_vars

\* A delete_item has just failed for lack of stock while records exist.
C1_Witness ==
    /\ last.op = "delete_item"
    /\ last.result = "NotEnoughStock"
    /\ DOMAIN STOCK_STORAGE # {}
    /\ DOMAIN WAREHOUSE_STORAGE # {}

\* C2: transfer_item of more than the item holds, out of the warehouse the
\* item is in, fails with NotEnoughStock, leaves the stock store as it was
\* (so the item's record too, and no record is created) and allocates no
\* item id.
C2_TransferRejectsOverWithdrawal ==
    [][last'.op = "transfer_item" =>
          LET item_id == last'.args[1]
              from_warehouse_id == last'.args[2]
              quantity == last'.args[4]
          IN  (/\ Contains(STOCK_STORAGE, item_id)
               /\ STOCK_STORAGE[item_id].warehouse_id = from_warehouse_id
               /\ quantity > STOCK_STORAGE[item_id].quantity)
              => /\ last'.result = "NotEnoughStock"
                 /\ Contains(STOCK_STORAGE', item_id)
                 /\ STOCK_STORAGE'[item_id] = STOCK_STORAGE[item_id]
                 /\ STOCK_STORAGE' = STOCK_STORAGE
                 /\ UNCHANGED <<ITEM_ID_COUNTER, ITEM_ID_INCREMENT>>]_vars

\* A transfer out of the right warehouse has just been refused because it
\* asked for more than the item, which has some stock, holds.
C2_Witness ==
    /\ last.op = "transfer_item"
    /\ last.result = "NotEnoughStock"
    /\ Contains(STOCK_STORAGE, last.args[1])
    /\ STOCK_STORAGE[last.args[1]].warehouse_id = last.args[2]
    /\ STOCK_STORAGE[last.args[1]].quantity > 0
    /\ STOCK_STORAGE[last.args[1]].quantity < last.args[4]

\* C3: transfer_item of a live item out of a warehouse it is not in fails
\* with NotFound whatever the quantity, and leaves the stock store, the item
\* counter and the item pool as they were.
C3_TransferRejectsWarehouseMismatch ==
    [][last'.op = "transfer_item" =>
          LET item_id == last'.args[1]
              from_warehouse_id == last'.args[2]
          IN  (/\ Contains(STOCK_STORAGE, item_id)
               /\ STOCK_STORAGE[item_id].warehouse_id # from_warehouse_id)
              => /\ last'.result = "NotFound"
                 /\ STOCK_STORAGE' = STOCK_STORAGE
                 /\ UNCHANGED <<ITEM_ID_COUNTER, ITEM_ID_INCREMENT>>]_vars

\* A transfer has just been refused with NotFound for a live item that is in
\* another warehouse than the one named, and that holds less than was asked.
C3_Witness ==
    /\ last.op = "transfer_item"
    /\ last.result = "NotFound"
    /\ Contains(STOCK_STORAGE, last.args[1])
    /\ STOCK_STORAGE[last.args[1]].warehouse_id # last.args[2]
    /\ STOCK_STORAGE[last.args[1]].quantity < last.args[4]

\* C4: a successful transfer_item(item_id, from, to, q) was made on a live
\* item of warehouse from holding n >= q; it leaves the source record under
\* item_id with quantity n - q, adds exactly one record, which has another
\* id, warehouse to, the name of the source, quantity q and no updated_at,
\* and changes no other stock record and no warehouse.
C4_TransferMovesQuantity ==
    [][(last'.op = "transfer_item" /\ last'.result = "Ok") =>
          LET item_id == last'.args[1]
              from_warehouse_id == last'.args[2]
              to_warehouse_id == last'.args[3]
              quantity == last'.args[4]
              old == STOCK_STORAGE[item_id]
          IN  /\ Contains(STOCK_STORAGE, item_id)
              /\ old.warehouse_id = from_warehouse_id
              /\ old.quantity >= quantity
              /\ Contains(STOCK_STORAGE', item_id)
              /\ STOCK_STORAGE'[item_id].quantity = old.quantity - quantity
              /\ STOCK_STORAGE'[item_id].item_id = item_id
              /\ STOCK_STORAGE'[item_id].warehouse_id = old.warehouse_id
              /\ STOCK_STORAGE'[item_id].item_name = old.item_name
              /\ \E new_id \in (DOMAIN STOCK_STORAGE') \ (DOMAIN STOCK_STORAGE) :
                    /\ DOMAIN STOCK_STORAGE' = (DOMAIN STOCK_STORAGE) \cup {new_id}
                    /\ new_id # item_id
                    /\ STOCK_STORAGE'[new_id].item_id = new_id
                    /\ STOCK_STORAGE'[new_id].warehouse_id = to_warehouse_id
                    /\ STOCK_STORAGE'[new_id].item_name = old.item_name
                    /\ STOCK_STORAGE'[new_id].quantity = quantity
                    /\ STOCK_STORAGE'[new_id].updated_at = None
              /\ \A k \in (DOMAIN STOCK_STORAGE) \ {item_id} :
                    STOCK_STORAGE'[k] = STOCK_STORAGE[k]
              /\ WAREHOUSE_STORAGE' = WAREHOUSE_STORAGE]_vars

\* A transfer of part of an item's stock to another warehouse has just
\* succeeded: the source keeps some, and a record of the destination holds
\* the quantity moved.
C4_Witness ==
    /\ last.op = "transfer_item"
    /\ last.result = "Ok"
    /\ last.args[2] # last.args[3]
    /\ last.args[4] > 0
    /\ STOCK_STORAGE[last.args[1]].quantity > 0
    /\ \E k \in DOMAIN STOCK_STORAGE :
          /\ k # last.args[1]
          /\ STOCK_STORAGE[k].warehouse_id = last.args[3]
          /\ STOCK_STORAGE[k].quantity = last.args[4]

\* C5: after a successful delete_warehouse(id) the warehouse record is gone,
\* no stock record has warehouse_id = id, get_warehouse_stock(id) is empty,
\* and the stock records of the other warehouses are exactly those there
\* were before, unchanged.
C5_CascadingDelete ==
    [][\A id \in WarehouseIdArgs :
          (/\ last'.op = "delete_warehouse"
           /\ last'.result = "Ok"
           /\ last'.args = <<id>>)
          => /\ Contains(WAREHOUSE_STORAGE, id)
             /\ ~Contains(WAREHOUSE_STORAGE', id)
             /\ \A k \in DOMAIN STOCK_STORAGE' :
                   STOCK_STORAGE'[k].warehouse_id # id
             /\ get_warehouse_stock(id)' = <<>>
             /\ get_warehouse(id)'.result = "NotFound"
             /\ DOMAIN STOCK_STORAGE' =
                   {k \in DOMAIN STOCK_STORAGE : STOCK_STORAGE[k].warehouse_id # id}
             /\ \A k \in DOMAIN STOCK_STORAGE' :
                   STOCK_STORAGE'[k] = STOCK_STORAGE[k]]_vars

\* A warehouse has just been deleted while a record of another warehouse
\* stays in the stock store.
C5_Witness ==
    /\ last.op = "delete_warehouse"
    /\ last.result = "Ok"
    /\ ~Contains(WAREHOUSE_STORAGE, last.args[1])
    /\ DOMAIN STOCK_STORAGE # {}
    /\ get_warehouse_stock(last.args[1]) = <<>>

\* C6: add_warehouse succeeds with an id that is not the id of a warehouse
\* live when it is called; the record is stored under that id, the records
\* there were are unchanged and there is exactly one live warehouse more.
C6_CreateNeverOverwrites ==
    [][last'.op = "add_warehouse" =>
          /\ last'.result = "Ok"
          /\ LET warehouse == last'.ret[1]
             IN  /\ ~Contains(WAREHOUSE_STORAGE, warehouse.id)
                 /\ Contains(WAREHOUSE_STORAGE', warehouse.id)
                 /\ WAREHOUSE_STORAGE'[warehouse.id] = warehouse
                 /\ \A k \in DOMAIN WAREHOUSE_STORAGE :
                       /\ Contains(WAREHOUSE_STORAGE', k)
                       /\ WAREHOUSE_STORAGE'[k] = WAREHOUSE_STORAGE[k]
                 /\ Cardinality(DOMAIN WAREHOUSE_STORAGE') =
                       Cardinality(DOMAIN WAREHOUSE_STORAGE) + 1]_vars

\* A warehouse has just been created under a reused id, next to another
\* live warehouse.
C6_Witness ==
    /\ last.op = "add_warehouse"
    /\ last.ret[1].id < WAREHOUSE_ID_INCREMENT - 1
    /\ Contains(WAREHOUSE_STORAGE, last.ret[1].id)
    /\ Cardinality(DOMAIN WAREHOUSE_STORAGE) >= 2

\* C7: when the pool of reusable warehouse ids is not empty, add_warehouse
\* returns its smallest member, takes it out of the pool and leaves the
\* counter alone; when it is empty, add_warehouse returns the counter and
\* increments it by one.  So a create that follows the deletion of
\* warehouse k gets id k when the pool holds no smaller id.
C7_SmallestRecycledIdFirst ==
    [][last'.op = "add_warehouse" =>
          LET id == last'.ret[1].id
          IN  /\ IF WAREHOUSE_ID_COUNTER # {}
                 THEN /\ id \in WAREHOUSE_ID_COUNTER
                      /\ \A x \in WAREHOUSE_ID_COUNTER : id <= x
                      /\ WAREHOUSE_ID_COUNTER' = WAREHOUSE_ID_COUNTER \ {id}
                      /\ WAREHOUSE_ID_INCREMENT' = WAREHOUSE_ID_INCREMENT
                 ELSE /\ id = WAREHOUSE_ID_INCREMENT
                      /\ WAREHOUSE_ID_INCREMENT' = WAREHOUSE_ID_INCREMENT + 1
                      /\ WAREHOUSE_ID_COUNTER' = {}
              /\ (/\ last.op = "delete_warehouse"
                  /\ last.result = "Ok"
                  /\ \A x \in WAREHOUSE_ID_COUNTER : last.args[1] <= x)
                 => id = last.args[1]]_vars

\* A warehouse has just been created under the smaller of two reusable ids:
\* the larger one is still in the pool.
C7_Witness ==
    /\ last.op = "add_warehouse"
    /\ WAREHOUSE_ID_COUNTER # {}
    /\ \A x \in WAREHOUSE_ID_COUNTER : last.ret[1].id < x

\* C8: when add_item_to_warehouse(w, name, q) is called while a stock record
\* with warehouse_id = w and item_name = name exists, the call succeeds,
\* that record's quantity grows by q and its updated_at is set, the record
\* is returned, no other record changes, no record is added and no item id
\* is allocated.
C8_AddMergesIntoExistingItem ==
    [][last'.op = "add_item_to_warehouse" =>
          LET w == last'.args[1]
              name == last'.args[2]
              q == last'.args[3]
          IN  Matching(w, name) # {}
              => /\ last'.result = "Ok"
                 /\ DOMAIN STOCK_STORAGE' = DOMAIN STOCK_STORAGE
                 /\ UNCHANGED <<ITEM_ID_COUNTER, ITEM_ID_INCREMENT>>
                 /\ \E id \in Matching(w, name) :
                       /\ STOCK_STORAGE'[id].quantity = STOCK_STORAGE[id].quantity + q
                       /\ STOCK_STORAGE'[id].updated_at # None
                       /\ STOCK_STORAGE'[id].item_id = id
                       /\ STOCK_STORAGE'[id].warehouse_id = w
                       /\ STOCK_STORAGE'[id].item_name = name
                       /\ last'.ret = <<STOCK_STORAGE'[id]>>
                       /\ \A k \in (DOMAIN STOCK_STORAGE) \ {id} :
                             STOCK_STORAGE'[k] = STOCK_STORAGE[k]]_vars

\* C9: delete_item(item_id, n) on a live item that holds n succeeds, returns
\* the item with quantity 0 and removes the record, so that check_stock of
\* the id then returns NotFound.
C9_DecrementToZeroRemoves ==
    [][\A item_id \in ItemIdArgs :
          (/\ last'.op = "delete_item"
           /\ last'.args[1] = item_id
           /\ Contains(STOCK_STORAGE, item_id)
           /\ last'.args[2] = STOCK_STORAGE[item_id].quantity)
          => /\ last'.result = "Ok"
             /\ Len(last'.ret) = 1
             /\ last'.ret[1].quantity = 0
             /\ last'.ret[1].item_id = item_id
             /\ ~Contains(STOCK_STORAGE', item_id)
             /\ check_stock(item_id)'.result = "NotFound"
             /\ \A k \in (DOMAIN STOCK_STORAGE) \ {item_id} :
                   /\ Contains(STOCK_STORAGE', k)
                   /\ STOCK_STORAGE'[k] = STOCK_STORAGE[k]]_vars

\* A delete_item of all the stock of an item that held some has just
\* succeeded: the item returned has quantity 0 and its record is gone.
C9_Witness ==
    /\ last.op = "delete_item"
    /\ last.result = "Ok"
    /\ last.args[2] > 0
    /\ last.ret[1].quantity = 0
    /\ ~Contains(STOCK_STORAGE, last.args[1])

\* C10: every record of the stock store has quantity > 0.
C10_QuantityPositive ==
    \A id \in DOMAIN STOCK_STORAGE : STOCK_STORAGE[id].quantity > 0

\* C11: add_item_to_warehouse on an existing warehouse with an empty
\* item_name or with quantity 0 fails with InvalidInput, leaves the stock
\* store as it was and allocates no item id.
C11_AddRejectsInvalidInput ==
    [][last'.op = "add_item_to_warehouse" =>
          LET w == last'.args[1]
              name == last'.args[2]
              q == last'.args[3]
          IN  (Contains(WAREHOUSE_STORAGE, w) /\ (name = "" \/ q = 0))
              => /\ last'.result = "InvalidInput"
                 /\ STOCK_STORAGE' = STOCK_STORAGE
                 /\ UNCHANGED <<ITEM_ID_COUNTER, ITEM_ID_INCREMENT>>]_vars

\* C12: add_warehouse with an empty name fails with InvalidInput, stores no
\* warehouse record and takes no warehouse id; no live warehouse has an
\* empty name.
C12_CreateRejectsEmptyName ==
    [][last'.op = "add_warehouse" =>
          /\ last'.args[1] = ""
                => /\ last'.result = "InvalidInput"
                   /\ WAREHOUSE_STORAGE' = WAREHOUSE_STORAGE
                   /\ UNCHANGED <<WAREHOUSE_ID_COUNTER, WAREHOUSE_ID_INCREMENT>>
          /\ \A id \in DOMAIN WAREHOUSE_STORAGE' :
                WAREHOUSE_STORAGE'[id].name # ""]_vars

\* The ids held by the pool of reusable item ids.
ItemPoolIds(pool) == {pool[i] : i \in 1..Len(pool)}

\* C13: the id of every stock record that a delete_item or the cascade of a
\* delete_warehouse removes is put into the pool of reusable item ids.
C13_RemovedItemIdsAreReleased ==
    [][last'.op \in {"delete_item", "delete_warehouse"} =>
          \A id \in (DOMAIN STOCK_STORAGE) \ (DOMAIN STOCK_STORAGE') :
              id \in ItemPoolIds(ITEM_ID_COUNTER')]_vars

\* C14: the warehouse_id of every stock record is the id of a live
\* warehouse.
C14_NoDanglingWarehouse ==
    \A id \in DOMAIN STOCK_STORAGE :
        Contains(WAREHOUSE_STORAGE, STOCK_STORAGE[id].warehouse_id)

\* C15: no id of a live warehouse is in the pool of reusable warehouse ids
\* and no id of a live stock item is in the pool of reusable item ids; a
\* successful transfer_item adds one record under an id that was not live,
\* and a successful add_item_to_warehouse either adds one record under an id
\* that was not live or adds none, and in both cases every record there was
\* keeps its warehouse_id and item_name: no record is overwritten.
C15_AllocatorDisjointness ==
    [][/\ (DOMAIN WAREHOUSE_STORAGE) \cap WAREHOUSE_ID_COUNTER = {}
       /\ (DOMAIN STOCK_STORAGE) \cap ItemPoolIds(ITEM_ID_COUNTER) = {}
       /\ (DOMAIN WAREHOUSE_STORAGE') \cap WAREHOUSE_ID_COUNTER' = {}
       /\ (DOMAIN STOCK_STORAGE') \cap ItemPoolIds(ITEM_ID_COUNTER') = {}
       /\ (/\ last'.op \in {"add_item_to_warehouse", "transfer_item"}
           /\ last'.result = "Ok")
          => /\ (DOMAIN STOCK_STORAGE) \subseteq (DOMAIN STOCK_STORAGE')
             /\ \A k \in DOMAIN STOCK_STORAGE :
                   /\ STOCK_STORAGE'[k].warehouse_id = STOCK_STORAGE[k].warehouse_id
                   /\ STOCK_STORAGE'[k].item_name = STOCK_STORAGE[k].item_name
             /\ Cardinality(DOMAIN STOCK_STORAGE')
                   <= Cardinality(DOMAIN STOCK_STORAGE) + 1
             /\ last'.op = "transfer_item"
                   => Cardinality(DOMAIN STOCK_STORAGE')
                         = Cardinality(DOMAIN STOCK_STORAGE) + 1]_vars

\* A transfer has just created a second stock record while a warehouse is
\* live and the id of a deleted one waits in the pool.
C15_Witness ==
    /\ last.op = "transfer_item"
    /\ last.result = "Ok"
    /\ Cardinality(DOMAIN STOCK_STORAGE) = 2
    /\ DOMAIN WAREHOUSE_STORAGE # {}
    /\ WAREHOUSE_ID_COUNTER # {}

\* C16: delete_item(item_id, q) on a live item that holds n > q succeeds,
\* keeps the record under item_id with quantity n - q and the same
\* warehouse_id and item_name, returns that record, and changes no other
\* stock record, no warehouse, no counter and no pool.
C16_PartialDecrement ==
    [][\A item_id \in ItemIdArgs :
          (/\ last'.op = "delete_item"
           /\ last'.args[1] = item_id
           /\ Contains(STOCK_STORAGE, item_id)
           /\ last'.args[2] < STOCK_STORAGE[item_id].quantity)
          => /\ last'.result = "Ok"
             /\ Contains(STOCK_STORAGE', item_id)
             /\ STOCK_STORAGE'[item_id].quantity =
                   STOCK_STORAGE[item_id].quantity - last'.args[2]
             /\ STOCK_STORAGE'[item_id].item_id = item_id
             /\ STOCK_STORAGE'[item_id].warehouse_id = STOCK_STORAGE[item_id].warehouse_id
             /\ STOCK_STORAGE'[item_id].item_name = STOCK_STORAGE[item_id].item_name
             /\ STOCK_STORAGE'[item_id].created_at = STOCK_STORAGE[item_id].created_at
             /\ last'.ret = <<STOCK_STORAGE'[item_id]>>
             /\ DOMAIN STOCK_STORAGE' = DOMAIN STOCK_STORAGE
             /\ \A k \in (DOMAIN STOCK_STORAGE) \ {item_id} :
                   STOCK_STORAGE'[k] = STOCK_STORAGE[k]
             /\ UNCHANGED <<WAREHOUSE_STORAGE, WAREHOUSE_ID_COUNTER,
                            WAREHOUSE_ID_INCREMENT, ITEM_ID_COUNTER,
                            ITEM_ID_INCREMENT>>]_vars

\* A delete_item of a part (not nothing) of an item's stock has just
\* succeeded and the record is still there with what is left.
C16_Witness ==
    /\ last.op = "delete_item"
    /\ last.result = "Ok"
    /\ last.args[2] > 0
    /\ Contains(STOCK_STORAGE, last.args[1])
    /\ STOCK_STORAGE[last.args[1]].quantity > 0
    /\ last.ret = <<STOCK_STORAGE[last.args[1]]>>

\* The sum of the quantities of the records of store ss with ids in ids.
RECURSIVE SumQuantity(_, _)
SumQuantity(ss, ids) ==
    IF ids = {} THEN 0
    ELSE LET id == MinOf(ids)
         IN  ss[id].quantity + SumQuantity(ss, ids \ {id})

TotalQuantity(ss) == SumQuantity(ss, DOMAIN ss)
TotalQuantityOf(ss, name) ==
    SumQuantity(ss, {id \in DOMAIN ss : ss[id].item_name = name})

\* C17: a transfer_item, successful or not, leaves the sum of the quantities
\* of all stock records, and the sum over the records of each item_name, as
\* they were.
C17_TransferConservesStock ==
    [][last'.op = "transfer_item" =>
          /\ TotalQuantity(STOCK_STORAGE') = TotalQuantity(STOCK_STORAGE)
          /\ \A name \in ItemNames :
                TotalQuantityOf(STOCK_STORAGE', name)
                   = TotalQuantityOf(STOCK_STORAGE, name)]_vars

\* A transfer has just succeeded and both the source and another record
\* hold stock.
C17_Witness ==
    /\ last.op = "transfer_item"
    /\ last.result = "Ok"
    /\ Cardinality({id \in DOMAIN STOCK_STORAGE :
                       STOCK_STORAGE[id].quantity > 0}) = 2
    /\ TotalQuantity(STOCK_STORAGE) = MaxQuantity

\* C18: the warehouse add_warehouse has just returned holds no stock:
\* get_warehouse_stock of its id is empty and its entry in
\* get_all_warehouses_with_stocks has an empty list of stock items.
C18_NewWarehouseIsEmpty ==
    last.op = "add_warehouse" =>
        LET w == last.ret[1].id
            all == get_all_warehouses_with_stocks
        IN  /\ get_warehouse_stock(w) = <<>>
            /\ \A i \in 1..Len(all) : all[i][1].id = w => all[i][2] = <<>>

\* C19: no two stock records have the same warehouse_id and the same
\* item_name.
C19_OneRecordPerWarehouseAndName ==
    \A a, b \in DOMAIN STOCK_STORAGE :
        (/\ STOCK_STORAGE[a].warehouse_id = STOCK_STORAGE[b].warehouse_id
         /\ STOCK_STORAGE[a].item_name = STOCK_STORAGE[b].item_name)
        => a = b

\* In this state both counters are at least 1, every live and every
\* reusable warehouse id is below the warehouse counter and every live item
\* id is below the item counter.
CounterBounds ==
    /\ WAREHOUSE_ID_INCREMENT >= 1
    /\ ITEM_ID_INCREMENT >= 1
    /\ \A id \in DOMAIN WAREHOUSE_STORAGE : id < WAREHOUSE_ID_INCREMENT
    /\ \A id \in WAREHOUSE_ID_COUNTER : id < WAREHOUSE_ID_INCREMENT
    /\ \A id \in DOMAIN STOCK_STORAGE : id < ITEM_ID_INCREMENT

\* C20: the counter bounds hold before and after every step, and no step
\* decreases a counter.
C20_CounterBounds ==
    [][/\ CounterBounds
       /\ CounterBounds'
       /\ WAREHOUSE_ID_INCREMENT' >= WAREHOUSE_ID_INCREMENT
       /\ ITEM_ID_INCREMENT' >= ITEM_ID_INCREMENT]_vars

\* Both counters have moved, a warehouse and a stock record are live and a
\* warehouse id waits in the pool.
C20_Witness ==
    /\ WAREHOUSE_ID_INCREMENT > 2
    /\ ITEM_ID_INCREMENT > 2
    /\ DOMAIN WAREHOUSE_STORAGE # {}
    /\ DOMAIN STOCK_STORAGE # {}
    /\ WAREHOUSE_ID_COUNTER # {}

====
